---- MODULE Spec2Model ----
(***************************************************************************)
(* Model of iss_transits.py: compute_events and the functions it calls,    *)
(* and of scripts/run_all_tests.py.                                        *)
(*                                                                         *)
(* Units.  Time is counted in ticks from start_utc (t0 = 0); a tick is one *)
(* second, the default fine_step_s.  Angles (separation, disc radius, near margin) are in      *)
(* quarter degrees, so that the Sun's and the Moon's disc radius           *)
(* (0.27 deg, 0.26 deg) is 1 and the 2.0 deg buffer of the early reject is *)
(* 8.  Altitudes are in the same unit.  The satellite range is in units of *)
(* 720/pi km (about 229 km), so that radians(sep) * range, in km, is the   *)
(* product of the two integers.  Angular speed is in quarter degrees per   *)
(* tick.  A field that is None in the program is the empty sequence, a     *)
(* field that is set is a one-element sequence.                            *)
(***************************************************************************)
EXTENDS Integers, Sequences, FiniteSets, TLC

VARIABLES
    arg,         \* the parameters of the call compute_events(...)
    sky,         \* what Skyfield answers for each satellite: its orbit seen from the observer
    body_alt,    \* altitude of the Sun and of the Moon during the window
    pc,          \* position of the main thread of compute_events
    jobs,        \* the pass tasks: one per (satellite, pass interval), with their locals
    iss_range_km,\* the function attribute refine_minimum.iss_range_km
    completed,   \* the futures as_completed has yielded so far
    events,      \* the list the main thread gathers into, in the order gathered
    result,      \* that list as line 694 sorts it and compute_events returns it
    fpi,         \* a call of find_pass_intervals on its own: arguments and result
    env,         \* what the network and the ephemeris do: TLE fetches and Skyfield calls that fail
    dicts,       \* main(): the dictionaries of the returned events, as --json prints them
    tests,       \* run_all_tests.py: what each step does, the steps run so far, the return
    elev,        \* get_elevation: its lru_cache, the requests and the calls so far
    rm           \* a call of refine_minimum on its own: arguments and result

\* the variables outside compute_events and main
aside == <<tests, elev, rm>>

vars == <<arg, sky, body_alt, pc, jobs, iss_range_km, completed, events, result, fpi,
          env, dicts, aside>>

(***************************************************************************)
(* Bounds of the model and program constants.                              *)
(***************************************************************************)
\* the longest window, in coarse steps
MaxSteps == 2
\* the longest altitude array given to find_pass_intervals on its own
MaxLen == 4
\* the widest half-window given to refine_minimum on its own
MaxWindow == 3
\* the entries the lru_cache of get_elevation holds (maxsize, 10000 in the
\* program) and the longest series of calls of get_elevation
MaxCache == 2
MaxCalls == 4

ISS_NAME == "ISS (ZARYA)"
TIANGONG_NAME == "TIANGONG"
Bodies == <<"Sun", "Moon">>
BUFFER_DEG == 8
ISS_DIMENSION_M == 108
\* 16.6 m, to the metre
TIANGONG_DIMENSION_M == 17

\* the default steps of the two grids, in ticks
DEFAULT_COARSE_STEP_S == 20
DEFAULT_REFINEMENT_WINDOW_S == 60

None == <<>>
Some(v) == <<v>>
IsSet(f) == f # None
Val(f) == f[1]

Abs(x) == IF x < 0 THEN -x ELSE x

\* the parameter values the model draws from
Days == {0, 2 * MaxSteps}
AltMins == {1}
NearMargins == {0, 2}
MaxDistances == {0, 35}
CoarseSteps == {2}
FineSteps == {1}
RefineWindows == {3}
BodyAlts == {-1, 0, 1}
\* observer positions, in degrees: inside the ranges of latitude and longitude,
\* and outside
Lats == {48}
Lons == {2}
AnyLats == {48, 100}
AnyLons == {2, 200}

\* the orbits the model draws from: altitude is a triangle wave with its
\* maximum peak at the ticks tp + k * period and slope 1; the range grows from
\* range0 with the distance to the culmination; the separation to a body is
\* dmin + rate * |t - tc|; rate is also the angular speed in the sky.
Conjunctions == [dmin : {0, 1, 3, 4, 12}, tc : {-2, 1}]
MoonConjunctions == [dmin : {1, 20}, tc : {1}]
Orbits ==
    [tp : {0, 1, 2}, peak : {1, 2}, period : {4}, range0 : {2}, rate : {0, 1},
     Sun : Conjunctions, Moon : MoonConjunctions]

(***************************************************************************)
(* Skyfield, as the program sees it.                                       *)
(***************************************************************************)
\* ticks between t and the nearest culmination of satellite s
Culmination(s, t) ==
    LET o == sky[s]
        m == (t - o.tp) % o.period
    IN  IF m <= o.period - m THEN m ELSE o.period - m

\* (sat - observer).at(t).altaz(): altitude
SatAlt(s, t) == sky[s].peak - Culmination(s, t)

\* norm of (sat - observer).at(t).position.km
SatRange(s, t) == sky[s].range0 + Culmination(s, t)

\* angle_between(sat_pos, body_pos) at t
angle_between(s, body, t) ==
    LET c == IF body = "Sun" THEN sky[s].Sun ELSE sky[s].Moon
    IN  c.dmin + sky[s].rate * Abs(t - c.tc)

\* angle between the satellite's sky positions at ta and tb
SkyAngle(s, ta, tb) == sky[s].rate * Abs(tb - ta)

\* angular_radius_deg(radius_km, body_distance_km)
angular_radius_deg(body) == 1

\* obs.at(t).observe(b).apparent().altaz(): altitude
TargetAlt(body, t) == body_alt[body]

(***************************************************************************)
(* The pure functions of iss_transits.py.                                  *)
(***************************************************************************)
\* positions k of 0..n at which f[k] = v, in increasing order (np.where)
Where(f, n, v) == SelectSeq([k \in 1..(n + 1) |-> k - 1], LAMBDA k : f[k] = v)

\* np.diff without append=0: no falling edge after the last sample
EdgeDiffNoAppend(above, n) ==
    [k \in 0..n |-> IF k < n
                    THEN above[k + 1] - (IF k > 0 THEN above[k] ELSE 0)
                    ELSE 0]

\* np.diff(above.astype(int), prepend=0, append=0): n + 1 differences
EdgeDiff(above, n) ==
    [k \in 0..n |-> (IF k < n THEN above[k + 1] ELSE 0)
                    - (IF k > 0 THEN above[k] ELSE 0)]

\* the intervals as <<start_idx, end_idx>>, indices counted from 0 as in numpy
find_pass_intervals(altitudes_deg, alt_min) ==
    LET n == Len(altitudes_deg)
        above == [i \in 1..n |-> IF altitudes_deg[i] >= alt_min THEN 1 ELSE 0]
        diff == EdgeDiff(above, n)
        starts == Where(diff, n, 1)
        ends == Where(diff, n, -1)
        m == IF Len(starts) <= Len(ends) THEN Len(starts) ELSE Len(ends)
    IN  IF \A i \in 1..n : above[i] = 0
        THEN <<>>
        ELSE [p \in 1..m |-> <<starts[p], ends[p] - 1>>]

\* the last position (from 0) of the smallest element
argmin_last(a) ==
    (CHOOSE i \in 1..Len(a) :
        /\ \A j \in 1..Len(a) : a[i] <= a[j]
        /\ \A j \in (i + 1)..Len(a) : a[j] > a[i]) - 1

\* np.argmin: the first position (from 0) of the smallest element
argmin(a) ==
    (CHOOSE i \in 1..Len(a) :
        /\ \A j \in 1..Len(a) : a[i] <= a[j]
        /\ \A j \in 1..(i - 1) : a[j] > a[i]) - 1

\* a grid that starts one step after t_center
FineGridAfter(t_center, window_s, step_s) ==
    LET n_before == window_s \div step_s
    IN  [i \in 1..(2 * n_before + 1) |-> t_center + i * step_s]

\* the instants refine_minimum samples: t_center + k * step_s, k = -n_before..n_before
FineGrid(t_center, window_s, step_s) ==
    LET n_before == window_s \div step_s
    IN  [i \in 1..(2 * n_before + 1) |-> t_center + (i - 1 - n_before) * step_s]

\* refine_minimum: its return value, and in iss_range_km the range it stores
\* in refine_minimum.iss_range_km before it returns
refine_minimum(s, t_center, window_s, step_s, body) ==
    LET times == FineGrid(t_center, window_s, step_s)
        sep_rad == [i \in 1..Len(times) |-> angle_between(s, body, times[i])]
        i_min == argmin(sep_rad)
        t_min == times[i_min + 1]
    IN  [t_min |-> t_min,
         sep_min_deg |-> sep_rad[i_min + 1],
         tgt_radius_deg |-> angular_radius_deg(body),
         sat_alt_deg |-> SatAlt(s, t_min),
         target_alt_deg |-> TargetAlt(body, t_min),
         iss_range_km |-> SatRange(s, t_min)]

\* A duration is kept exactly, as the square of the chord and the speed:
\* duration_s = sqrt(chord_sq) / speed.
ZeroDuration == [chord_sq |-> 0, speed |-> 1]
Positive(d) == d.chord_sq > 0 /\ d.speed > 0

\* the duration of a crossing along the diameter, 2 R / v, whatever the separation
DiameterDuration(separation_deg, target_radius_deg, speed_deg_per_s) ==
    IF speed_deg_per_s <= 0 \/ separation_deg > target_radius_deg
    THEN ZeroDuration
    ELSE [chord_sq |-> 4 * target_radius_deg * target_radius_deg,
          speed |-> speed_deg_per_s]

calculate_transit_duration(separation_deg, target_radius_deg, speed_deg_per_s) ==
    LET r_sq == target_radius_deg * target_radius_deg
        d_sq == separation_deg * separation_deg
    IN  IF speed_deg_per_s <= 0 \/ separation_deg > target_radius_deg
        THEN ZeroDuration
        ELSE IF d_sq >= r_sq
             THEN ZeroDuration
             ELSE [chord_sq |-> 4 * (r_sq - d_sq), speed |-> speed_deg_per_s]

\* in tenths of an arc second, rounded down: degrees(size_km / distance_km) * 3600
satellite_angular_size_arcsec(sat_dimension_m, distance_km) ==
    IF distance_km <= 0 THEN 0 ELSE (9 * sat_dimension_m) \div distance_km

SATELLITE_DIMENSIONS ==
    [n \in {ISS_NAME, TIANGONG_NAME} |->
        IF n = ISS_NAME THEN ISS_DIMENSION_M ELSE TIANGONG_DIMENSION_M]

\* list.sort(key=lambda e: e.dt_utc): stable, by insertion
RECURSIVE InsertByTime(_, _)
InsertByTime(sorted, e) ==
    IF sorted = <<>> THEN <<e>>
    ELSE IF Head(sorted).dt_utc <= e.dt_utc
         THEN <<Head(sorted)>> \o InsertByTime(Tail(sorted), e)
         ELSE <<e>> \o sorted

RECURSIVE SortByTime(_)
SortByTime(es) ==
    IF es = <<>> THEN <<>>
    ELSE InsertByTime(SortByTime(SubSeq(es, 1, Len(es) - 1)), es[Len(es)])

(***************************************************************************)
(* compute_events: the main thread.                                        *)
(***************************************************************************)
t0 == 0
t1 == t0 + arg.days
n_steps == ((t1 - t0) \div arg.coarse_step_s) + 1

\* the coarse time grid, times[i] for i = 0..n_steps - 1
CoarseTime(i) == t0 + i * arg.coarse_step_s

\* the locals of a pass task outside the three steps of one body
NoRefined ==
    [t_min |-> 0, sep_min_deg |-> 0, tgt_radius_deg |-> 0, sat_alt_deg |-> 0,
     target_alt_deg |-> 0, iss_range_km |-> 0]

\* make_job(): the closure of one pass, about to run
make_job(sat_name, interval, pass_idx) ==
    [sat_name |-> sat_name, pass_idx |-> pass_idx,
     i0 |-> interval[1], i1 |-> interval[2],
     at |-> "refine", b |-> 1, local_events |-> <<>>,
     r |-> NoRefined, sat_range_km |-> None, kind |-> None, refined |-> <<>>]

\* the pass intervals of one satellite on the coarse grid
Intervals(s) ==
    find_pass_intervals([i \in 1..n_steps |-> SatAlt(s, CoarseTime(i - 1))],
                        arg.alt_min_deg)

\* the jobs of the satellites sats[k..], in the order the loop appends them
RECURSIVE JobsFrom(_, _)
JobsFrom(sats, k) ==
    IF k > Len(sats) THEN <<>>
    ELSE LET iv == Intervals(sats[k])
         IN  [p \in 1..Len(iv) |-> make_job(sats[k], iv[p], p - 1)]
             \o JobsFrom(sats, k + 1)

\* fetch_tle returns the two lines for the satellite, or raises (lines 86, 87, 91, 92)
TleFetched(sat_name) == env.tle_ok[sat_name]

\* the names in the order of Python's string comparison
NameOrder == <<ISS_NAME, TIANGONG_NAME>>

\* lines 341-353: sats after the fetch pool and sats.sort by name (the names of
\* a call are distinct, so the order of completion of the fetches leaves no trace)
SortedSats(satellites) ==
    SelectSeq(NameOrder, LAMBDA n : \E i \in 1..Len(satellites) : satellites[i] = n)

\* lines 336-675: every TLE is fetched, then the time grid, the pass intervals,
\* the jobs, and their submission to the pool
BuildJobs ==
    /\ pc = "start"
    /\ \A i \in 1..Len(arg.satellites) : TleFetched(arg.satellites[i])
    /\ jobs' = JobsFrom(SortedSats(arg.satellites), 1)
    /\ pc' = "pool"
    /\ UNCHANGED <<arg, sky, body_alt, iss_range_km, completed, events, result, fpi, env, dicts, aside>>

\* lines 342-346: fut.result() of a fetch that failed raises again in the main
\* thread; the with block waits for the other fetches and the exception leaves
\* compute_events
FetchRaises ==
    /\ pc = "start"
    /\ \E i \in 1..Len(arg.satellites) : ~TleFetched(arg.satellites[i])
    /\ pc' = "tle_error"
    /\ UNCHANGED <<arg, sky, body_alt, jobs, iss_range_km, completed, events, result, fpi,
                   env, dicts, aside>>

(***************************************************************************)
(* _run_pass: one pass task, three steps for each body.                    *)
(***************************************************************************)
\* the pool runs its tasks until the with block of line 674 is left
PoolOpen == pc \in {"pool", "unwinding"}

\* the Skyfield calls at the head of the task (lines 487-491) raise for this job
SkyfieldRaises(j) == env.raising = j

\* lines 487-491: the task ends with the exception, which its future keeps
Raise(j) ==
    /\ PoolOpen
    /\ jobs[j].at = "refine"
    /\ jobs[j].b = 1
    /\ SkyfieldRaises(j)
    /\ jobs' = [jobs EXCEPT ![j] = [@ EXCEPT !.at = "raised"]]
    /\ UNCHANGED <<arg, sky, body_alt, pc, iss_range_km, completed, events, result, fpi,
                   env, dicts, aside>>

\* the loop over the bodies moves on, or the task returns local_events
NextBody(job) ==
    IF job.b < Len(Bodies)
    THEN [job EXCEPT !.b = job.b + 1, !.at = "refine", !.r = NoRefined,
                     !.sat_range_km = None, !.kind = None]
    ELSE [job EXCEPT !.at = "done", !.r = NoRefined,
                     !.sat_range_km = None, !.kind = None]

\* rough radius for the early reject: atan(R / d) for the Sun and for the Moon
rough_radius_deg(body) == 1

max_interesting_sep(body) == rough_radius_deg(body) + arg.near_margin_deg + BUFFER_DEG

\* the coarse separations of a pass, sep_arr[j] for j = 0..i1 - i0
CoarseSeps(job, body) ==
    [j \in 1..(job.i1 - job.i0 + 1) |->
        angle_between(job.sat_name, body, CoarseTime(job.i0 + j - 1))]

\* whether the early reject skips the body (line 532)
EarlyReject(job, body) ==
    LET sep_arr == CoarseSeps(job, body)
    IN  sep_arr[argmin(sep_arr) + 1] > max_interesting_sep(body)

\* the call of refine_minimum at the coarse minimum of the pass (lines 541-544)
RefineAtCoarseMin(job, body) ==
    LET j_min == argmin(CoarseSeps(job, body))
    IN  refine_minimum(job.sat_name, CoarseTime(job.i0 + j_min),
                       arg.refine_window_s, arg.fine_step_s, body)

\* lines 510-544: coarse minimum, early reject, refine_minimum, which stores
\* the range in the function attribute
Refine(j) ==
    /\ PoolOpen
    /\ jobs[j].at = "refine"
    /\ ~SkyfieldRaises(j)
    /\ LET job == jobs[j]
           body == Bodies[job.b]
       IN  IF EarlyReject(job, body)
           THEN /\ jobs' = [jobs EXCEPT ![j] = NextBody(job)]
                /\ UNCHANGED iss_range_km
           ELSE LET r == RefineAtCoarseMin(job, body)
                IN  /\ jobs' = [jobs EXCEPT ![j] = [job EXCEPT !.at = "classify", !.r = r]]
                    /\ iss_range_km' = Some(r.iss_range_km)
    /\ UNCHANGED <<arg, sky, body_alt, pc, completed, events, result, fpi, env, dicts, aside>>

\* the near test in front of the transit test
ClassificationNearFirst(sep_min_deg, tgt_rad_deg, near_margin_deg) ==
    IF sep_min_deg <= tgt_rad_deg + near_margin_deg THEN Some("near")
    ELSE IF sep_min_deg <= tgt_rad_deg THEN Some("transit")
    ELSE None

\* exclusive thresholds
ClassificationExclusive(sep_min_deg, tgt_rad_deg, near_margin_deg) ==
    IF sep_min_deg < tgt_rad_deg THEN Some("transit")
    ELSE IF sep_min_deg < tgt_rad_deg + near_margin_deg THEN Some("near")
    ELSE None

\* lines 553-558: transit, near or nothing
Classification(sep_min_deg, tgt_rad_deg, near_margin_deg) ==
    IF sep_min_deg <= tgt_rad_deg THEN Some("transit")
    ELSE IF sep_min_deg <= tgt_rad_deg + near_margin_deg THEN Some("near")
    ELSE None

\* lines 560-564: the reachable test on an unclassified minimum
Reachable(kind, r, sat_range_km) ==
    IF /\ kind = None
       /\ arg.max_distance_km > 0
       /\ sat_range_km # None
       /\ r.sep_min_deg * Val(sat_range_km) <= arg.max_distance_km
       /\ r.target_alt_deg >= 0
       /\ r.sat_alt_deg >= arg.alt_min_deg
    THEN Some("reachable")
    ELSE kind

\* a gate that looks at the kind only
GateKindOnly(kind, r) == kind # None

\* a gate that wants the body strictly above the horizon
GateStrictHorizon(kind, r) ==
    kind # None /\ r.target_alt_deg > 0 /\ r.sat_alt_deg >= arg.alt_min_deg

\* line 574: the gate in front of the event
Gate(kind, r) ==
    kind # None /\ r.target_alt_deg >= 0 /\ r.sat_alt_deg >= arg.alt_min_deg

\* lines 547-574: read the range back from the function attribute, classify, gate
Classify(j) ==
    /\ PoolOpen
    /\ jobs[j].at = "classify"
    /\ LET job == jobs[j]
           sat_range_km == iss_range_km
           kind == Reachable(Classification(job.r.sep_min_deg, job.r.tgt_radius_deg,
                                            arg.near_margin_deg),
                             job.r, sat_range_km)
           seen == [body |-> Bodies[job.b], t_min |-> job.r.t_min,
                    sep_min_deg |-> job.r.sep_min_deg,
                    tgt_rad_deg |-> job.r.tgt_radius_deg, kind |-> kind]
           logged == [job EXCEPT !.refined = Append(job.refined, seen)]
       IN  IF Gate(kind, job.r)
           THEN jobs' = [jobs EXCEPT ![j] = [logged EXCEPT !.at = "emit", !.kind = kind,
                                                           !.sat_range_km = sat_range_km]]
           ELSE jobs' = [jobs EXCEPT ![j] = NextBody(logged)]
    /\ UNCHANGED <<arg, sky, body_alt, pc, iss_range_km, completed, events, result, fpi, env, dicts, aside>>

\* lines 577-610: the angular speed of the satellite in the sky around t_min
speed_deg_per_s(s, t_min) ==
    SkyAngle(s, t_min - arg.fine_step_s, t_min + arg.fine_step_s)
        \div (2 * arg.fine_step_s)

\* a duration for every moving satellite, in front of the disc or not
DurationWhenMoving(sep_min_deg, tgt_rad_deg, speed) ==
    IF speed > 0
    THEN Some(calculate_transit_duration(sep_min_deg, tgt_rad_deg, speed))
    ELSE None

\* lines 641-642: duration_s is filled in only in front of the disc
EventDuration(sep_min_deg, tgt_rad_deg, speed) ==
    IF speed > 0 /\ sep_min_deg <= tgt_rad_deg
    THEN Some(calculate_transit_duration(sep_min_deg, tgt_rad_deg, speed))
    ELSE None

\* lines 620-649: the event of a classified minimum that passed the gate
MakeEvent(job, sat_distance_km) ==
    LET r == job.r
        kind == Val(job.kind)
        speed == speed_deg_per_s(job.sat_name, r.t_min)
        sized == /\ sat_distance_km # None
                 /\ Val(sat_distance_km) # 0
                 /\ job.sat_name \in DOMAIN SATELLITE_DIMENSIONS
    IN  [dt_utc |-> r.t_min,
         body |-> Bodies[job.b],
         separation_deg |-> r.sep_min_deg,
         target_radius_deg |-> r.tgt_radius_deg,
         kind |-> kind,
         sat_alt_deg |-> r.sat_alt_deg,
         target_alt_deg |-> r.target_alt_deg,
         lat |-> None, lon |-> None, elev |-> None,
         distance_km |->
            IF kind = "reachable" /\ job.sat_range_km # None
            THEN Some(r.sep_min_deg * Val(job.sat_range_km)) ELSE None,
         sat_name |-> Some(job.sat_name),
         speed_deg_per_s |-> Some(speed),
         duration_s |-> EventDuration(r.sep_min_deg, r.tgt_radius_deg, speed),
         sat_angular_size_arcsec |->
            IF sized
            THEN Some(satellite_angular_size_arcsec(SATELLITE_DIMENSIONS[job.sat_name],
                                                    Val(sat_distance_km)))
            ELSE None,
         sat_distance_km |-> sat_distance_km]

\* lines 575-653: speed, second read of the function attribute, the event
Emit(j) ==
    /\ PoolOpen
    /\ jobs[j].at = "emit"
    /\ LET job == jobs[j]
           ev == MakeEvent(job, iss_range_km)
       IN  jobs' = [jobs EXCEPT ![j] =
                       NextBody([job EXCEPT !.local_events = Append(job.local_events, ev)])]
    /\ UNCHANGED <<arg, sky, body_alt, pc, iss_range_km, completed, events, result, fpi, env, dicts, aside>>

(***************************************************************************)
(* compute_events: gathering the futures, and the return.                  *)
(***************************************************************************)
\* a result() that hands back the list of a task whatever its end
FutureNeverRaises(job) == FALSE

\* line 680: fut.result() raises the exception the task ended with
FutureRaises(job) == job.at = "raised"

\* lines 678-681: as_completed yields a finished future; its events are
\* appended, or its exception leaves the loop
Gather(j) ==
    /\ pc = "pool"
    /\ j \notin completed
    /\ jobs[j].at \in {"done", "raised"}
    /\ completed' = completed \cup {j}
    /\ IF FutureRaises(jobs[j])
       THEN pc' = "unwinding" /\ UNCHANGED events
       ELSE events' = events \o jobs[j].local_events /\ UNCHANGED pc
    /\ UNCHANGED <<arg, sky, body_alt, jobs, iss_range_km, result, fpi, env, dicts, aside>>

\* an exit that does not wait
ShutdownNoWait == TRUE

\* line 674: leaving the with block is shutdown(wait=True), which returns when
\* every submitted task has ended
ShutdownWait == \A j \in 1..Len(jobs) : jobs[j].at \in {"done", "raised"}

\* lines 674-681: the exception of a task leaves the with block, then
\* compute_events; the gathered events are lost with its frame
Propagate ==
    /\ pc = "unwinding"
    /\ ShutdownWait
    /\ pc' = "task_error"
    /\ UNCHANGED <<arg, sky, body_alt, jobs, iss_range_km, completed, events, result, fpi,
                   env, dicts, aside>>

\* the gathered events left as they are
Unsorted(es) == es

\* the order in which line 694 leaves the gathered events
Sorted(es) == SortByTime(es)

\* lines 689-709: all futures gathered, the pool is left, the events are sorted
\* and returned
Return ==
    /\ pc = "pool"
    /\ completed = 1..Len(jobs)
    /\ ShutdownWait
    /\ result' = Sorted(events)
    /\ pc' = "done"
    /\ UNCHANGED <<arg, sky, body_alt, jobs, iss_range_km, completed, events, fpi, env, dicts, aside>>

(***************************************************************************)
(* Event.to_dict, and main() with --json.                                  *)
(***************************************************************************)
EmptyDict == [k \in {} |-> 0]

\* lines 115-141: the dictionary of an event; arc minutes are 15 to the quarter
\* degree, the time is written as the text of its tick
to_dict(e) ==
    ("time_utc" :> e.dt_utc)
    @@ ("body" :> e.body)
    @@ ("separation_arcmin" :> 15 * e.separation_deg)
    @@ ("target_radius_arcmin" :> 15 * e.target_radius_deg)
    @@ ("kind" :> e.kind)
    @@ ("sat_alt_deg" :> e.sat_alt_deg)
    @@ ("target_alt_deg" :> e.target_alt_deg)
    @@ (IF e.lat # None
        THEN ("lat" :> Val(e.lat)) @@ ("lon" :> Val(e.lon)) @@ ("elev" :> Val(e.elev))
             @@ ("distance_km" :> Val(e.distance_km))
        ELSE EmptyDict)
    @@ (IF e.sat_name # None THEN ("satellite" :> Val(e.sat_name)) ELSE EmptyDict)
    @@ (IF e.speed_deg_per_s # None
        THEN ("speed_deg_per_s" :> Val(e.speed_deg_per_s))
             @@ ("speed_arcmin_per_s" :> 15 * Val(e.speed_deg_per_s))
        ELSE EmptyDict)
    @@ (IF e.duration_s # None THEN ("duration_s" :> Val(e.duration_s)) ELSE EmptyDict)
    @@ (IF e.sat_angular_size_arcsec # None
        THEN ("sat_angular_size_arcsec" :> Val(e.sat_angular_size_arcsec))
        ELSE EmptyDict)
    @@ (IF e.sat_distance_km # None
        THEN ("sat_distance_km" :> Val(e.sat_distance_km))
        ELSE EmptyDict)

\* main(), lines 785-796: each returned event goes through to_dict, then
\* d["satellite"] is written again (null without a name), and the list is printed
PrintJson ==
    /\ pc = "done"
    /\ dicts' = [i \in 1..Len(result) |->
                LET e == result[i]
                    d == to_dict(e)
                    satellite == IF e.sat_name # None THEN Val(e.sat_name) ELSE "null"
                IN  [to_dict |-> d, printed |-> ("satellite" :> satellite) @@ d]]
    /\ pc' = "printed"
    /\ UNCHANGED <<arg, sky, body_alt, jobs, iss_range_km, completed, events, result, fpi,
                   env, aside>>

NoCall == [altitudes_deg |-> <<>>, alt_min |-> 0, at |-> "idle", out |-> <<>>]

\* the test runner, get_elevation and refine_minimum on its own are not in use
NoTests == [outcome |-> <<>>, i |-> 0, ran |-> <<>>, at |-> "idle", code |-> 0, status |-> 0]
NoElev == [cache |-> <<>>, log |-> <<>>]
NoRefine == [at |-> "idle"]
Aside == tests = NoTests /\ elev = NoElev /\ rm = NoRefine

\* the state of a call at its entry
Entry ==
    /\ pc = "start"
    /\ jobs = <<>>
    /\ iss_range_km = None
    /\ completed = {}
    /\ events = <<>>
    /\ result = <<>>
    /\ fpi = NoCall
    /\ dicts = <<>>
    /\ Aside

\* what can fail around a call of one satellite: nothing, its TLE fetch, or
\* the Skyfield calls of its first pass
Envs ==
    {[tle_ok |-> [n \in {ISS_NAME} |-> TRUE], raising |-> 0],
     [tle_ok |-> [n \in {ISS_NAME} |-> TRUE], raising |-> 1],
     [tle_ok |-> [n \in {ISS_NAME} |-> FALSE], raising |-> 0]}

Init ==
    /\ arg \in [lat : Lats, lon : Lons,
                days : Days, alt_min_deg : AltMins, coarse_step_s : CoarseSteps,
                fine_step_s : FineSteps, refine_window_s : RefineWindows,
                near_margin_deg : NearMargins, max_distance_km : MaxDistances,
                satellites : {<<ISS_NAME>>}]
    /\ sky \in [{ISS_NAME} -> Orbits]
    /\ body_alt \in [{"Sun", "Moon"} -> BodyAlts]
    /\ env \in Envs
    /\ Entry

Next ==
    \/ BuildJobs
    \/ FetchRaises
    \/ \E j \in 1..Len(jobs) : Raise(j)
    \/ \E j \in 1..Len(jobs) : Refine(j)
    \/ \E j \in 1..Len(jobs) : Classify(j)
    \/ \E j \in 1..Len(jobs) : Emit(j)
    \/ \E j \in 1..Len(jobs) : Gather(j)
    \/ Propagate
    \/ Return
    \/ PrintJson

Spec == Init /\ [][Next]_vars

(***************************************************************************)
(* Calls with two satellites, each with one pass, and with observer        *)
(* positions inside and outside the ranges of latitude and longitude.      *)
(***************************************************************************)
PairOrbits ==
    [tp : {2}, peak : {2}, period : {4}, range0 : {2}, rate : {1},
     Sun : [dmin : {0, 3}, tc : {1}], Moon : [dmin : {20}, tc : {1}]]

InitPair ==
    /\ arg \in [lat : AnyLats, lon : AnyLons,
                days : {2 * MaxSteps}, alt_min_deg : AltMins, coarse_step_s : CoarseSteps,
                fine_step_s : FineSteps, refine_window_s : RefineWindows,
                near_margin_deg : {2}, max_distance_km : {0},
                satellites : {<<ISS_NAME>>, <<TIANGONG_NAME, ISS_NAME>>}]
    /\ sky \in [{ISS_NAME, TIANGONG_NAME} -> PairOrbits]
    /\ body_alt = [b \in {"Sun", "Moon"} |-> 1]
    /\ env \in [tle_ok : [{ISS_NAME, TIANGONG_NAME} -> BOOLEAN], raising : {0, 1}]
    /\ Entry

SpecPair == InitPair /\ [][Next]_vars

(***************************************************************************)
(* Calls with the default coarse step and refinement window, and a         *)
(* satellite whose separation from the Sun changes by up to 1 degree per   *)
(* second: one pass over the three coarse samples of the window, the       *)
(* conjunction on a coarse sample or midway between two.                   *)
(***************************************************************************)
FastOrbits ==
    [tp : {20}, peak : {25}, period : {80}, range0 : {2}, rate : {0, 1, 4},
     Sun : [dmin : {0, 3}, tc : {10, 20}], Moon : [dmin : {20}, tc : {20}]]

InitFast ==
    /\ arg \in [lat : Lats, lon : Lons,
                days : {2 * DEFAULT_COARSE_STEP_S}, alt_min_deg : AltMins,
                coarse_step_s : {DEFAULT_COARSE_STEP_S},
                fine_step_s : FineSteps, refine_window_s : {DEFAULT_REFINEMENT_WINDOW_S},
                near_margin_deg : NearMargins, max_distance_km : {0},
                satellites : {<<ISS_NAME>>}]
    /\ sky \in [{ISS_NAME} -> FastOrbits]
    /\ body_alt = [b \in {"Sun", "Moon"} |-> 1]
    /\ env \in Envs
    /\ Entry

SpecFast == InitFast /\ [][Next]_vars

(***************************************************************************)
(* find_pass_intervals on its own, on every altitude array of up to MaxLen *)
(* samples.                                                                *)
(***************************************************************************)
AltitudeArrays == UNION {[1..n -> {0, 1, 2}] : n \in 0..MaxLen}

InitFPI ==
    /\ fpi \in [altitudes_deg : AltitudeArrays, alt_min : AltMins,
                at : {"call"}, out : {<<>>}]
    /\ arg = [lat |-> 48, lon |-> 2,
              days |-> 0, alt_min_deg |-> 1, coarse_step_s |-> 2, fine_step_s |-> 1,
              refine_window_s |-> 3, near_margin_deg |-> 0, max_distance_km |-> 0,
              satellites |-> <<>>]
    /\ sky = <<>>
    /\ body_alt = [b \in {"Sun", "Moon"} |-> 0]
    /\ pc = "fpi"
    /\ jobs = <<>>
    /\ iss_range_km = None
    /\ completed = {}
    /\ events = <<>>
    /\ result = <<>>
    /\ env = [tle_ok |-> <<>>, raising |-> 0]
    /\ dicts = <<>>
    /\ Aside

CallFPI ==
    /\ fpi.at = "call"
    /\ fpi' = [fpi EXCEPT !.at = "returned",
                          !.out = find_pass_intervals(fpi.altitudes_deg, fpi.alt_min)]
    /\ UNCHANGED <<arg, sky, body_alt, pc, jobs, iss_range_km, completed, events, result,
                   env, dicts, aside>>

NextFPI == CallFPI

SpecFPI == InitFPI /\ [][NextFPI]_vars

\* the variables of compute_events and main
query == <<arg, sky, body_alt, pc, jobs, iss_range_km, completed, events, result, fpi,
           env, dicts>>

\* no call of compute_events is going on
NoQuery ==
    /\ arg = [lat |-> 48, lon |-> 2,
              days |-> 0, alt_min_deg |-> 1, coarse_step_s |-> 2, fine_step_s |-> 1,
              refine_window_s |-> 3, near_margin_deg |-> 0, max_distance_km |-> 0,
              satellites |-> <<>>]
    /\ body_alt = [b \in {"Sun", "Moon"} |-> 0]
    /\ pc = "off"
    /\ jobs = <<>>
    /\ iss_range_km = None
    /\ completed = {}
    /\ events = <<>>
    /\ result = <<>>
    /\ fpi = NoCall
    /\ env = [tle_ok |-> <<>>, raising |-> 0]
    /\ dicts = <<>>

(***************************************************************************)
(* scripts/run_all_tests.py.                                               *)
(***************************************************************************)
\* lines 31-36: the commands of main(), in the order of the list
steps == <<"cargo test", "flutter test", "simple_ffi_test.py", "compare_rust_python.py">>

\* what subprocess.run does with a command: the command cannot be started
\* (None, subprocess.run raises), or it runs and gives its returncode: 0, 1, or
\* -9 for a child killed by signal 9
Outcomes == {None, Some(0), Some(1), Some(-9)}

\* a test that lets the children that a signal killed pass
FailedPositive(code) == code > 0

\* line 40: the test that ends the loop
Failed(code) == code # 0

\* the exit status the shell sees after sys.exit(code)
ExitStatus(code) == code % 256

InitTests ==
    /\ tests \in [outcome : [1..Len(steps) -> Outcomes], i : {1}, ran : {<<>>},
                  at : {"running"}, code : {0}, status : {0}]
    /\ elev = NoElev
    /\ rm = NoRefine
    /\ sky = <<>>
    /\ NoQuery

\* lines 38-41 and 21-27: one round of the loop: run(cmd), and return its code
\* if it is not 0; an exception of subprocess.run leaves main() and the
\* interpreter exits with status 1
RunStep ==
    /\ tests.at = "running"
    /\ tests.i <= Len(steps)
    /\ LET o == tests.outcome[tests.i]
       IN  IF o = None
           THEN tests' = [tests EXCEPT !.at = "raised", !.status = 1]
           ELSE IF Failed(Val(o))
           THEN tests' = [tests EXCEPT !.ran = Append(@, steps[tests.i]),
                                       !.at = "returned", !.code = Val(o),
                                       !.status = ExitStatus(Val(o))]
           ELSE tests' = [tests EXCEPT !.ran = Append(@, steps[tests.i]),
                                       !.i = @ + 1]
    /\ UNCHANGED <<query, elev, rm>>

\* lines 42 and 46: the loop is over, main() returns 0
ReturnZero ==
    /\ tests.at = "running"
    /\ tests.i > Len(steps)
    /\ tests' = [tests EXCEPT !.at = "returned", !.code = 0, !.status = ExitStatus(0)]
    /\ UNCHANGED <<query, elev, rm>>

NextTests == RunStep \/ ReturnZero

SpecTests == InitTests /\ [][NextTests]_vars

(***************************************************************************)
(* refine_minimum on its own, with half-windows of 0 to MaxWindow ticks    *)
(* and steps of 1 and 2 ticks.                                             *)
(***************************************************************************)
RefineOrbits ==
    [tp : {0}, peak : {2}, period : {4}, range0 : {2}, rate : {0, 1},
     Sun : [dmin : {0, 3}, tc : {-2, 0, 1}], Moon : [dmin : {1}, tc : {1}]]

InitRM ==
    /\ rm \in [s : {ISS_NAME}, t_center : {0, 1}, window_s : 0..MaxWindow, step_s : {1, 2},
               body : {"Sun", "Moon"}, at : {"call"}, times : {<<>>}, out : {NoRefined}]
    /\ sky \in [{ISS_NAME} -> RefineOrbits]
    /\ tests = NoTests
    /\ elev = NoElev
    /\ NoQuery

\* lines 210-266: the call; times is the grid of lines 215-221
CallRM ==
    /\ rm.at = "call"
    /\ rm' = [rm EXCEPT !.at = "returned",
                        !.times = FineGrid(rm.t_center, rm.window_s, rm.step_s),
                        !.out = refine_minimum(rm.s, rm.t_center, rm.window_s,
                                               rm.step_s, rm.body)]
    /\ UNCHANGED <<query, tests, elev>>

NextRM == CallRM

SpecRM == InitRM /\ [][NextRM]_vars

(***************************************************************************)
(* get_elevation behind its lru_cache.                                     *)
(***************************************************************************)
\* the (lat, lon) the calls are made with
Positions == {<<48, 2>>, <<48, 3>>, <<49, 2>>}

\* what the elevation service does with a request: it answers with results,
\* it answers without results, or something in the try block raises (the
\* request, raise_for_status, resp.json() or float())
Services == {"ok", "no_results", "error"}

\* the elevation, in metres, the service answers with
Terrain(k) == 10 * k[1] + k[2]

\* lines 282-291: the body of get_elevation
fetch_elevation(k, service) == IF service = "ok" THEN Terrain(k) ELSE 0

\* a cache that is never hit
NeverHit(cache, k) == FALSE

\* lru_cache, line 279: the key is in the cache
CacheHit(cache, k) == \E i \in 1..Len(cache) : cache[i].key = k

Cached(cache, k) == (CHOOSE i \in 1..Len(cache) : cache[i].key = k)

\* lru_cache: the entry becomes the most recently used one, and the least
\* recently used one leaves a cache that is over its size
Touch(cache, k, v) ==
    LET others == SelectSeq(cache, LAMBDA e : e.key # k)
        all == Append(others, [key |-> k, value |-> v])
    IN  IF Len(all) > MaxCache THEN Tail(all) ELSE all

InitElev ==
    /\ elev = NoElev
    /\ tests = NoTests
    /\ rm = NoRefine
    /\ sky = <<>>
    /\ NoQuery

\* lines 279-291: a call get_elevation(lat, lon) while the service is in the
\* state service; the log keeps the call, its value, and whether it made a request
GetElevation(k, service) ==
    /\ Len(elev.log) < MaxCalls
    /\ LET hit == CacheHit(elev.cache, k)
           v == IF hit THEN elev.cache[Cached(elev.cache, k)].value
                ELSE fetch_elevation(k, service)
       IN  elev' = [cache |-> Touch(elev.cache, k, v),
                    log |-> Append(elev.log, [key |-> k, service |-> service,
                                              requested |-> ~hit, value |-> v])]
    /\ UNCHANGED <<query, tests, rm>>

NextElev == \E k \in Positions : \E service \in Services : GetElevation(k, service)

SpecElev == InitElev /\ [][NextElev]_vars

(***************************************************************************)
(* Properties.                                                             *)
(***************************************************************************)
Range(seq) == {seq[i] : i \in 1..Len(seq)}

\* every event a pass task has appended, and every event returned
EmittedEvents == UNION {Range(jobs[j].local_events) : j \in 1..Len(jobs)} \cup Range(result)

\* the refined minima a task has classified so far
RefinedMinima == UNION {Range(jobs[j].refined) : j \in 1..Len(jobs)}

\* C1: the list compute_events returns is in non-decreasing order of dt_utc,
\* whatever the order in which the pass tasks completed and were gathered.
C1_SortedByTime ==
    pc = "done" =>
        \A i \in 1..Len(result) : \A k \in i..Len(result) :
            result[i].dt_utc <= result[k].dt_utc

\* two events were gathered against the order of their times, and returned
C1_GatheredOutOfOrder ==
    /\ pc = "done"
    /\ Len(result) >= 2
    /\ \E i \in 1..Len(events) : \E k \in (i + 1)..Len(events) :
            events[i].dt_utc > events[k].dt_utc

\* C2: every emitted event, of any kind, has sat_alt_deg >= alt_min_deg and
\* target_alt_deg >= 0, and these are the altitudes of the satellite and of
\* the body at the event's time: a minimum below either limit gives no event.
C2_AltitudeGate ==
    \A e \in EmittedEvents :
        /\ e.sat_alt_deg >= arg.alt_min_deg
        /\ e.target_alt_deg >= 0
        /\ SatAlt(Val(e.sat_name), e.dt_utc) >= arg.alt_min_deg
        /\ TargetAlt(e.body, e.dt_utc) >= 0

\* a task classified a minimum as transit or near that fails the gate, and the
\* call returned events of other minima
C2_GateRejected ==
    /\ pc = "done"
    /\ result # <<>>
    /\ \E j \in 1..Len(jobs) : \E x \in Range(jobs[j].refined) :
            /\ x.kind # None
            /\ \/ SatAlt(jobs[j].sat_name, x.t_min) < arg.alt_min_deg
               \/ TargetAlt(x.body, x.t_min) < 0

\* C3, as claimed: every transit event has separation_deg <= target_radius_deg
\* and a duration_s that is set and strictly greater than 0.
C3_TransitDurationPositive ==
    \A e \in EmittedEvents :
        e.kind = "transit" =>
            /\ e.separation_deg <= e.target_radius_deg
            /\ IsSet(e.duration_s)
            /\ Positive(Val(e.duration_s))

\* C3, amended: every transit event has separation_deg <= target_radius_deg;
\* its duration_s is set exactly when the angular speed is > 0, and is then
\* > 0 when separation_deg < target_radius_deg and 0 when they are equal.
C3_TransitDuration ==
    \A e \in EmittedEvents :
        e.kind = "transit" =>
            /\ e.separation_deg <= e.target_radius_deg
            /\ IsSet(e.duration_s) <=> Val(e.speed_deg_per_s) > 0
            /\ IsSet(e.duration_s) =>
                    (Positive(Val(e.duration_s)) <=> e.separation_deg < e.target_radius_deg)
            /\ IsSet(e.duration_s) /\ e.separation_deg = e.target_radius_deg =>
                    Val(e.duration_s) = ZeroDuration

\* a grazing transit (separation equal to the radius) and a central one were
\* returned, both with a duration
C3_GrazingTransit ==
    /\ pc = "done"
    /\ \E e \in Range(result) :
            /\ e.kind = "transit"
            /\ e.separation_deg = e.target_radius_deg
            /\ IsSet(e.duration_s)
    /\ \E e \in Range(result) :
            /\ e.kind = "transit"
            /\ e.separation_deg < e.target_radius_deg
            /\ IsSet(e.duration_s)

\* C4: every near event has
\* target_radius_deg < separation_deg <= target_radius_deg + near_margin_deg.
C4_NearBand ==
    \A e \in EmittedEvents :
        e.kind = "near" =>
            /\ e.target_radius_deg < e.separation_deg
            /\ e.separation_deg <= e.target_radius_deg + arg.near_margin_deg

\* a near event on the outer edge of the band was returned
C4_NearReturned ==
    /\ pc = "done"
    /\ \E e \in Range(result) :
            /\ e.kind = "near"
            /\ e.separation_deg = e.target_radius_deg + arg.near_margin_deg

\* C5: classification is first match wins with inclusive thresholds: a
\* refined minimum is transit exactly when sep <= disc_radius (so also at
\* sep = disc_radius), near exactly when disc_radius < sep <= disc_radius +
\* near_margin (so also at sep = disc_radius + near_margin, unless the margin
\* is 0 and the transit rule has matched first), and it has one kind at most.
C5_FirstMatchInclusive ==
    \A x \in RefinedMinima :
        /\ Len(x.kind) <= 1
        /\ x.kind = Some("transit") <=> x.sep_min_deg <= x.tgt_rad_deg
        /\ x.kind = Some("near") <=>
                /\ x.tgt_rad_deg < x.sep_min_deg
                /\ x.sep_min_deg <= x.tgt_rad_deg + arg.near_margin_deg
        /\ x.sep_min_deg = x.tgt_rad_deg => x.kind = Some("transit")
        /\ x.sep_min_deg = x.tgt_rad_deg + arg.near_margin_deg
                /\ x.sep_min_deg > x.tgt_rad_deg => x.kind = Some("near")

\* one task classified a minimum on the edge of the disc and one on the outer
\* edge of a non-empty near band
C5_BothThresholds ==
    /\ \E x \in RefinedMinima :
            x.sep_min_deg = x.tgt_rad_deg /\ x.kind = Some("transit")
    /\ \E x \in RefinedMinima :
            /\ arg.near_margin_deg > 0
            /\ x.sep_min_deg = x.tgt_rad_deg + arg.near_margin_deg
            /\ x.kind = Some("near")

\* the minima a task has dealt with completely: classified, and emitted or dropped
Settled(job) ==
    {k \in 1..Len(job.refined) :
        job.at = "done" \/ job.refined[k].body # Bodies[job.b]}

HasEvent(job, x) ==
    \E e \in Range(job.local_events) : e.body = x.body /\ e.dt_utc = x.t_min

\* C6, as claimed: a refined minimum at which the body's altitude is exactly 0
\* is discarded, so no event has target_alt_deg = 0.
C6_HorizonDiscarded ==
    \A e \in EmittedEvents : e.target_alt_deg # 0

\* C6, amended: a refined minimum at which the body's altitude is below 0 is
\* discarded whatever its separation; one at exactly 0 is kept like any
\* minimum above the horizon, it gives an event when it is classified and the
\* satellite is at or above alt_min_deg.
C6_HorizonInclusive ==
    \A j \in 1..Len(jobs) : \A k \in Settled(jobs[j]) :
        LET x == jobs[j].refined[k]
        IN  /\ TargetAlt(x.body, x.t_min) < 0 => ~HasEvent(jobs[j], x)
            /\ /\ TargetAlt(x.body, x.t_min) = 0
               /\ x.kind # None
               /\ SatAlt(jobs[j].sat_name, x.t_min) >= arg.alt_min_deg
               => HasEvent(jobs[j], x)

\* an event of a body at altitude exactly 0 was returned, and a classified
\* minimum of a body below the horizon was dropped
C6_EventOnHorizon ==
    /\ pc = "done"
    /\ \E e \in Range(result) : e.target_alt_deg = 0
    /\ \E j \in 1..Len(jobs) : \E x \in Range(jobs[j].refined) :
            x.kind # None /\ TargetAlt(x.body, x.t_min) < 0

\* C7: with an empty time window (days = 0, t0 = t1) compute_events returns
\* an empty list.
C7_EmptyWindowEmptyList ==
    pc = "done" /\ arg.days = 0 => result = <<>>

\* C8: the closest-approach time of every returned event lies in the query
\* window [t0, t1] (stated for the non-empty windows, days > 0).
C8_TimeInWindow ==
    arg.days > 0 =>
        \A e \in Range(result) : t0 <= e.dt_utc /\ e.dt_utc <= t1

\* the (start, end) pairs are exactly the maximal runs of the samples at or
\* above alt_min
MaximalRuns(altitudes_deg, alt_min, out) ==
    LET n == Len(altitudes_deg)
        up(i) == i \in 0..(n - 1) /\ altitudes_deg[i + 1] >= alt_min
    IN  /\ \A p \in 1..Len(out) :
                /\ out[p][1] <= out[p][2]
                /\ \A i \in out[p][1]..out[p][2] : up(i)
                /\ ~up(out[p][1] - 1)
                /\ ~up(out[p][2] + 1)
        /\ \A p \in 1..(Len(out) - 1) : out[p][2] + 1 < out[p + 1][1]
        /\ \A i \in 0..(n - 1) :
                up(i) => Cardinality({p \in 1..Len(out) :
                                        out[p][1] <= i /\ i <= out[p][2]}) = 1
        /\ (\A i \in 0..(n - 1) : ~up(i)) => out = <<>>

\* C9: find_pass_intervals returns, in increasing order, exactly the maximal
\* runs of indices with altitude >= alt_min as inclusive pairs; runs touching
\* the first or the last sample are kept; an empty or all-below input gives
\* the empty list.
C9_MaximalRuns ==
    fpi.at = "returned" => MaximalRuns(fpi.altitudes_deg, fpi.alt_min, fpi.out)

\* a call returned two runs, the first from the first sample and the second
\* to the last sample
C9_RunsAtBothEnds ==
    /\ fpi.at = "returned"
    /\ Len(fpi.out) = 2
    /\ fpi.out[1][1] = 0
    /\ fpi.out[2][2] = Len(fpi.altitudes_deg) - 1

\* C10: with max_distance_km > 0, every (pass, body) whose closest approach
\* is neither transit nor near, passes the altitude gate and has
\* radians(sep) * range <= max_distance_km has a reachable event in the
\* returned list (stated for the non-empty windows, days > 0).
C10_ReachableComplete ==
    pc = "done" /\ arg.max_distance_km > 0 /\ arg.days > 0 =>
        \A j \in 1..Len(jobs) : \A b \in 1..Len(Bodies) :
            LET r == RefineAtCoarseMin(jobs[j], Bodies[b])
            IN  /\ Classification(r.sep_min_deg, r.tgt_radius_deg,
                                  arg.near_margin_deg) = None
                /\ r.target_alt_deg >= 0
                /\ r.sat_alt_deg >= arg.alt_min_deg
                /\ r.sep_min_deg * r.iss_range_km <= arg.max_distance_km
                => \E e \in Range(result) :
                        /\ e.kind = "reachable"
                        /\ e.body = Bodies[b]
                        /\ e.dt_utc = r.t_min
                        /\ e.sat_name = Some(jobs[j].sat_name)

\* C11: duration_s is set on an emitted event only when its kind is transit;
\* near events and reachable events always have duration_s None.
C11_DurationOnlyOnTransit ==
    \A e \in EmittedEvents :
        /\ IsSet(e.duration_s) => e.kind = "transit"
        /\ e.kind \in {"near", "reachable"} => e.duration_s = None

\* a transit with a duration was returned together with a reachable event of a
\* moving satellite that has none
C11_ReachableWithoutDuration ==
    /\ pc = "done"
    /\ \E e \in Range(result) : e.kind = "transit" /\ IsSet(e.duration_s)
    /\ \E e \in Range(result) :
            e.kind = "reachable" /\ Val(e.speed_deg_per_s) > 0 /\ e.duration_s = None

\* the events a pass task gives when it runs with no other task beside it:
\* the range it uses is the one of its own refine_minimum call
OwnEvent(job, b) ==
    LET body == Bodies[b]
        r == RefineAtCoarseMin(job, body)
        own_range == Some(r.iss_range_km)
        kind == Reachable(Classification(r.sep_min_deg, r.tgt_radius_deg,
                                         arg.near_margin_deg), r, own_range)
        at_emit == [job EXCEPT !.b = b, !.r = r, !.kind = kind,
                               !.sat_range_km = own_range]
    IN  IF EarlyReject(job, body) THEN <<>>
        ELSE IF Gate(kind, r) THEN <<MakeEvent(at_emit, own_range)>>
        ELSE <<>>

RECURSIVE OwnEvents(_, _)
OwnEvents(job, b) ==
    IF b > Len(Bodies) THEN <<>> ELSE OwnEvent(job, b) \o OwnEvents(job, b + 1)

\* C12: pass tasks share no writable state: under every interleaving the
\* sat_distance_km of an event, the range behind its reachable test and its
\* distance_km, and its angular size are those of the refine_minimum call of
\* the same (satellite, pass, body), never of another task's call.
C12_RangeOfOwnRefinement ==
    \A j \in 1..Len(jobs) : \A e \in Range(jobs[j].local_events) :
        \E b \in 1..Len(Bodies) :
            /\ Bodies[b] = e.body
            /\ <<e>> = OwnEvent(jobs[j], b)
            /\ e.sat_distance_km =
                    Some(RefineAtCoarseMin(jobs[j], e.body).iss_range_km)

\* the list the call returns when the pass tasks run one after the other in
\* the order of their submission
RECURSIVE SequentialEvents(_)
SequentialEvents(k) ==
    IF k > Len(jobs) THEN <<>> ELSE OwnEvents(jobs[k], 1) \o SequentialEvents(k + 1)

SequentialResult == Sorted(SequentialEvents(1))

\* C13: two runs of compute_events on the same inputs return the same list,
\* fields and order, whatever the scheduling and the completion order of the
\* pass tasks. The run in which the tasks execute and complete one after the
\* other is one of the runs, so the claim says that every run returns the list
\* of that run.
C13_SameListAsSequentialRun ==
    pc = "done" => result = SequentialResult

\* C14: no two returned events share the same (satellite, body,
\* closest-approach time): two pass intervals of one satellite whose
\* refinement windows overlap never both give an event for the same minimum.
C14_NoDuplicateEvents ==
    pc = "done" =>
        \A i \in 1..Len(result) : \A k \in (i + 1)..Len(result) :
            ~ /\ result[i].sat_name = result[k].sat_name
              /\ result[i].body = result[k].body
              /\ result[i].dt_utc = result[k].dt_utc

\* the satellites of the call whose TLE fetch succeeds
FetchedSats == SelectSeq(SortedSats(arg.satellites), TleFetched)

\* C15: a TLE fetch or parse failure for one satellite removes only that
\* satellite from the query: the call does not fail while another satellite's
\* TLE was fetched, and the passes of the fetched satellites are the jobs that
\* are run.
C15_FailedFetchRemovesOneSatellite ==
    pc # "start" /\ FetchedSats # <<>> =>
        /\ pc # "tle_error"
        /\ {<<jobs[j].sat_name, jobs[j].pass_idx>> : j \in 1..Len(jobs)}
            = {<<x.sat_name, x.pass_idx>> : x \in Range(JobsFrom(FetchedSats, 1))}

ValidInput == arg.lat \in (-90)..90 /\ arg.lon \in (-180)..180

\* C16: with a latitude outside [-90, 90] or a longitude outside [-180, 180]
\* compute_events fails at its entry: no TLE is fetched, no job is built or
\* run, and no event is returned.
C16_InvalidInputRejected ==
    ~ValidInput =>
        /\ pc = "start"
        /\ jobs = <<>>
        /\ result = <<>>

\* C17: if a pass task raises, compute_events does not return: no list, and
\* so no event gathered from the other tasks, is returned or printed, and the
\* as_completed loop does not end normally.
C17_TaskFailurePropagates ==
    /\ (\E j \in 1..Len(jobs) : jobs[j].at = "raised") =>
            /\ pc \notin {"done", "printed"}
            /\ result = <<>>
            /\ dicts = <<>>
    /\ pc = "task_error" => \E j \in completed : jobs[j].at = "raised"

\* the call ended with the exception of a task after it had gathered events
\* of another task
C17_GatheredEventsDropped ==
    /\ pc = "task_error"
    /\ events # <<>>
    /\ result = <<>>

\* C18: compute_events leaves its thread pool, by returning or by raising,
\* only after every submitted pass task has finished.
C18_PoolLeftAfterAllTasks ==
    pc \in {"done", "printed", "task_error"} =>
        \A j \in 1..Len(jobs) : jobs[j].at \in {"done", "raised"}

\* the call ended with the exception of a task, and a task it never gathered
\* has run to its end and has events
C18_UngatheredTaskFinished ==
    /\ pc = "task_error"
    /\ \E j \in 1..Len(jobs) :
            /\ j \notin completed
            /\ jobs[j].at = "done"
            /\ jobs[j].local_events # <<>>

\* the returned events whose time lies in the window
InWindow == {i \in 1..Len(result) : t0 <= result[i].dt_utc /\ result[i].dt_utc <= t1}

\* C19: with max_distance_km > 0 every returned event carries the observer
\* position (lat, lon, elev) and distance_km (stated for the non-empty
\* windows, days > 0, and the events inside the window).
C19_ObserverPositionAttached ==
    pc \in {"done", "printed"} /\ arg.max_distance_km > 0 /\ arg.days > 0 =>
        \A i \in InWindow :
            /\ IsSet(result[i].lat)
            /\ IsSet(result[i].lon)
            /\ IsSet(result[i].elev)
            /\ IsSet(result[i].distance_km)

\* the optional fields of an event, and the key of each in the dictionary
OptionalFields ==
    {"lat", "lon", "elev", "distance_km", "sat_name", "speed_deg_per_s", "duration_s",
     "sat_angular_size_arcsec", "sat_distance_km"}

DictKey(field) == IF field = "sat_name" THEN "satellite" ELSE field

\* C20: Event.to_dict omits exactly the absent optional fields: for each of
\* lat, lon, elev, distance_km, satellite, speed, duration_s,
\* sat_angular_size_arcsec and sat_distance_km the key is in the dictionary if
\* and only if the field is set; a reachable event whose distance_km is set
\* has the key distance_km (stated for the non-empty windows, days > 0, and
\* the events inside the window).
C20_ToDictOmitsExactlyAbsent ==
    pc = "printed" /\ arg.days > 0 =>
        \A i \in InWindow : \A field \in OptionalFields :
            DictKey(field) \in DOMAIN dicts[i].to_dict <=> IsSet(result[i][field])

\* the first step of the runner that does not exit with 0 (by a code that is
\* not 0 or by not starting), or Len(steps) + 1
FirstNotZero ==
    LET bad == {k \in 1..Len(steps) : tests.outcome[k] # Some(0)}
    IN  IF bad = {} THEN Len(steps) + 1
        ELSE CHOOSE k \in bad : \A m \in bad : k <= m

\* C21: the test runner runs its steps in the order cargo test, flutter test,
\* FFI smoke test, Rust-vs-Python comparison; it stops at the first step with
\* an exit code that is not 0, runs no later step and returns that code; it
\* returns 0 only when all four steps exited with 0.
C21_StopsAtFirstFailure ==
    /\ tests.at # "idle" =>
            /\ Len(tests.ran) <= Len(steps)
            /\ tests.ran = SubSeq(steps, 1, Len(tests.ran))
            /\ Len(tests.ran) <= FirstNotZero
    /\ tests.at = "returned" =>
            /\ tests.code = 0 <=> \A k \in 1..Len(steps) : tests.outcome[k] = Some(0)
            /\ tests.code = 0 => tests.ran = steps /\ tests.status = 0
            /\ tests.code # 0 =>
                    /\ tests.ran = SubSeq(steps, 1, FirstNotZero)
                    /\ tests.outcome[FirstNotZero] = Some(tests.code)
                    /\ tests.status # 0

\* the runner stopped at the third step, which a signal had killed, after two
\* steps that passed, and left with the code of that step although the
\* fourth step would have failed too
C21_StoppedAtThirdStep ==
    /\ tests.at = "returned"
    /\ tests.ran = SubSeq(steps, 1, 3)
    /\ tests.code = -9
    /\ tests.outcome[4] = Some(1)

\* C22: refine_minimum evaluates the separation on exactly
\* 2 * floor(window_s / step_s) + 1 instants t_center + k * step_s, k = -n..n,
\* t_center among them, and returns the time and the separation of the
\* smallest sample, the earliest one when several samples tie.
C22_FineGridEarliestMinimum ==
    rm.at = "returned" =>
        LET n == rm.window_s \div rm.step_s
            sep(t) == angle_between(rm.s, rm.body, t)
        IN  /\ n * rm.step_s <= rm.window_s /\ rm.window_s < (n + 1) * rm.step_s
            /\ Len(rm.times) = 2 * n + 1
            /\ \A k \in (-n)..n : rm.times[k + n + 1] = rm.t_center + k * rm.step_s
            /\ rm.t_center \in Range(rm.times)
            /\ rm.out.t_min \in Range(rm.times)
            /\ rm.out.sep_min_deg = sep(rm.out.t_min)
            /\ \A t \in Range(rm.times) :
                    /\ sep(t) >= rm.out.sep_min_deg
                    /\ sep(t) = rm.out.sep_min_deg => rm.out.t_min <= t

\* a call whose half-window is not a multiple of the step returned the
\* earlier of two samples that tie for the minimum, neither of them the first
\* sample
C22_TieInTheGrid ==
    /\ rm.at = "returned"
    /\ rm.window_s % rm.step_s # 0
    /\ rm.out.t_min > rm.times[1]
    /\ \E t \in Range(rm.times) :
            /\ t > rm.out.t_min
            /\ angle_between(rm.s, rm.body, t) = rm.out.sep_min_deg
    /\ \E t \in Range(rm.times) : angle_between(rm.s, rm.body, t) > rm.out.sep_min_deg

\* the separation on the coarse grid at the coarse argmin of the pass
CoarseMin(job, body) ==
    LET sep_arr == CoarseSeps(job, body)
    IN  sep_arr[argmin(sep_arr) + 1]

\* C23: for every (pass, body) that is refined, the separation refine_minimum
\* returns is at most the coarse-grid separation at the coarse argmin of the
\* pass: the fine grid contains the coarse instant.
C23_RefinedAtMostCoarse ==
    \A j \in 1..Len(jobs) :
        /\ \A x \in Range(jobs[j].refined) :
                x.sep_min_deg <= CoarseMin(jobs[j], x.body)
        /\ jobs[j].at \in {"classify", "emit"} =>
                jobs[j].r.sep_min_deg <= CoarseMin(jobs[j], Bodies[jobs[j].b])

\* a task refined a minimum 3 quarter degrees below the coarse minimum of its
\* pass, and the call returned its event
C23_RefinedBelowCoarse ==
    /\ pc = "done"
    /\ \E j \in 1..Len(jobs) : \E x \in Range(jobs[j].refined) :
            /\ x.sep_min_deg + 3 = CoarseMin(jobs[j], x.body)
            /\ HasEvent(jobs[j], x)

\* the task has gone past the body by the early reject
Skipped(job, b) ==
    /\ EarlyReject(job, Bodies[b])
    /\ job.at # "raised"
    /\ job.b > b \/ job.at = "done"

\* C24: the early reject is sound for transit and near events: when the
\* coarse minimum of a pass exceeds rough_radius + near_margin_deg + 2 degrees
\* and the body is skipped, the smallest separation on the fine grid around
\* that coarse minimum is above target_radius + near_margin_deg, for a
\* satellite whose separation changes by up to 1 degree per second.
C24_EarlyRejectSound ==
    \A j \in 1..Len(jobs) : \A b \in 1..Len(Bodies) :
        Skipped(jobs[j], b) /\ sky[jobs[j].sat_name].rate <= 4 =>
            LET r == RefineAtCoarseMin(jobs[j], Bodies[b])
            IN  r.sep_min_deg > r.tgt_radius_deg + arg.near_margin_deg

\* call i of get_elevation made a request that failed
FailedCall(i) == elev.log[i].requested /\ elev.log[i].service # "ok"

\* the positions other than that of call i looked up between the calls i and j
Between(i, j) ==
    {elev.log[m].key : m \in (i + 1)..(j - 1)} \ {elev.log[i].key}

\* C25, as claimed: get_elevation returns 0.0 on any request or parse failure,
\* and this value is cached: every later call with the same (lat, lon) returns
\* 0.0 without a new request, even when the service has recovered.
C25_FailureCachedForEver ==
    \A j \in 1..Len(elev.log) :
        /\ FailedCall(j) => elev.log[j].value = 0
        /\ \A i \in 1..(j - 1) :
                FailedCall(i) /\ elev.log[i].key = elev.log[j].key =>
                    elev.log[j].value = 0 /\ ~elev.log[j].requested

\* C25, amended: get_elevation returns 0.0 on any request or parse failure,
\* and this value is cached: a later call with the same (lat, lon) returns 0.0
\* without a new request, even when the service has recovered, as long as
\* fewer than maxsize other positions have been looked up in between (the
\* cache is an LRU cache and drops the entry after that).
C25_FailureCachedWhileKept ==
    \A j \in 1..Len(elev.log) :
        /\ FailedCall(j) => elev.log[j].value = 0
        /\ \A i \in 1..(j - 1) :
                /\ FailedCall(i)
                /\ elev.log[i].key = elev.log[j].key
                /\ Cardinality(Between(i, j)) < MaxCache
                => elev.log[j].value = 0 /\ ~elev.log[j].requested

\* a request failed, another position was looked up, and a later call for
\* the first position came back with 0.0 and no request although the service
\* would have answered
C25_StaleZeroAfterRecovery ==
    \E j \in 1..Len(elev.log) : \E i \in 1..(j - 1) :
        /\ FailedCall(i)
        /\ elev.log[i].key = elev.log[j].key
        /\ Between(i, j) # {}
        /\ elev.log[j].service = "ok"
        /\ elev.log[j].value = 0
        /\ ~elev.log[j].requested

====
